---- MODULE Spec2Model ----
(***************************************************************************)
(* Model of src/app.py: the Streamlit "Load Nautobot Data" button handler, *)
(* utils_load_nautobot_data (merge of the two YAML documents followed by   *)
(* the hand-coded chain of REST calls) and NautobotClient.http_call on a   *)
(* requests session mounted with urllib3 Retry(total=retries,              *)
(* status_forcelist=[429, 500, 502, 503, 504]).                            *)
(*                                                                         *)
(* Python values: a dict is a function from its keys, a list a sequence,   *)
(* None the string "None" (also what an f-string renders it as).  An       *)
(* insertion-ordered dict of nodes is a sequence of [key, data] records    *)
(* with distinct keys.  Identifiers returned by the remote system are      *)
(* strings, fresh for every response.  The value http_call returns is a    *)
(* dict, or, for a body that is a JSON array, the value ListValue.         *)
(***************************************************************************)
EXTENDS Integers, Sequences, FiniteSets, TLC

VARIABLES
    topology_dict,             \* load_yaml(topology), mutated by the merge loop
    extra_topology_vars_dict,  \* load_yaml(extra_topology_vars)
    transport,                 \* the remote end: the outcomes an attempt may have
    pc,                        \* position of the handler in utils_load_nautobot_data
    locals,                    \* local variables bound so far: name -> response dict
    log,                       \* every request handed to session.send, in order
    events,                    \* console.log / st.info messages, in order
    shown                      \* what the button handler finally renders

vars == <<topology_dict, extra_topology_vars_dict, transport, pc, locals, log, events, shown>>

(***************************************************************************)
(* Bounds of the explored documents.                                       *)
(***************************************************************************)
MaxNodes == 2
MaxIntf == 2
MaxPrefixes == 2

\* the chunks of a response body are counted up to MaxChunks, and then
\* again from 1
MaxChunks == 2

None == "None"

\* dict.get(key) and dict.get(key, default)
Get(d, k) == IF k \in DOMAIN d THEN d[k] ELSE None
GetOr(d, k, default) == IF k \in DOMAIN d THEN d[k] ELSE default

\* the empty dict {}
EmptyDict == [k \in {} |-> None]

Range(s) == {s[j] : j \in DOMAIN s}

RECURSIVE SumSeq(_)
SumSeq(s) == IF s = <<>> THEN 0 ELSE Head(s) + SumSeq(Tail(s))

(***************************************************************************)
(* NautobotClient                                                          *)
(***************************************************************************)
\* NautobotClient.__init__: kwargs.get("retries", 3)
retries == 3

\* Retry(status_forcelist=[429, 500, 502, 503, 504])
status_forcelist == {429, 500, 502, 503, 504}

\* urllib3 Retry.DEFAULT_ALLOWED_METHODS: the Retry object is built without
\* allowed_methods, so only idempotent methods are retried on a status or
\* on a read error.
allowed_methods == {"HEAD", "GET", "PUT", "DELETE", "OPTIONS", "TRACE"}

\* Retry.is_retry(method, status_code): no Retry-After handling is modelled
is_retry(method, status_code) ==
    /\ method \in allowed_methods
    /\ status_code \in status_forcelist

(***************************************************************************)
(* One attempt of session.send has one of these outcomes: the connection   *)
(* is refused, the connection times out, the request is sent and nothing   *)
(* (or only a part of the status line) arrives within the timeout, the     *)
(* peer closes the connection without sending a byte, or the status line   *)
(* and headers of a response arrive.  A response is its status code,       *)
(* whether its text contains "already exists", what becomes of its body    *)
(* (a JSON object, a JSON array, text that is no JSON, a body of which no  *)
(* further byte arrives within the timeout, a body the peer closes the     *)
(* connection in) and, for an object, whether it carries "id".             *)
(***************************************************************************)
ConnectError ==
    [kind |-> "connect_error", status_code |-> 0, already_exists |-> FALSE,
     has_id |-> FALSE, body |-> "none"]
ConnectTimedOut ==
    [kind |-> "connect_timeout", status_code |-> 0, already_exists |-> FALSE,
     has_id |-> FALSE, body |-> "none"]
ReadError ==
    [kind |-> "read_error", status_code |-> 0, already_exists |-> FALSE,
     has_id |-> FALSE, body |-> "none"]
Disconnected ==
    [kind |-> "disconnected", status_code |-> 0, already_exists |-> FALSE,
     has_id |-> FALSE, body |-> "none"]

\* a response whose body is a JSON object
Response(status_code, already_exists, has_id) ==
    [kind |-> "response", status_code |-> status_code,
     already_exists |-> already_exists, has_id |-> has_id, body |-> "object"]

\* a response whose body is a JSON array ("array") or no JSON ("text"), or
\* does not arrive whole: it stops arriving ("stalled") or the peer closes
\* the connection inside it ("truncated")
NonObjectResponse(status_code, body) ==
    [kind |-> "response", status_code |-> status_code,
     already_exists |-> FALSE, has_id |-> FALSE, body |-> body]

\* Session.send reads the body of the response the adapter returned
\* (stream=False): the requests exception this raises, None for a body that
\* arrives whole
read_content(o) ==
    CASE o.body = "stalled" -> "ConnectionError"
      [] o.body = "truncated" -> "ChunkedEncodingError"
      [] OTHER -> None

\* the retry budget is never exhausted
session_send_unbounded(method, failed, o) ==
    CASE o.kind \in {"connect_error", "connect_timeout"} -> [do |-> "retry", error |-> None]
      [] o.kind = "read_error" ->
           IF method \notin allowed_methods
           THEN [do |-> "raise", error |-> "ReadTimeout"]
           ELSE [do |-> "retry", error |-> None]
      [] o.kind = "disconnected" ->
           IF method \notin allowed_methods
           THEN [do |-> "raise", error |-> "ConnectionError"]
           ELSE [do |-> "retry", error |-> None]
      [] OTHER ->
           IF is_retry(method, o.status_code) THEN [do |-> "retry", error |-> None]
           ELSE IF read_content(o) # None THEN [do |-> "raise", error |-> read_content(o)]
           ELSE [do |-> "return", error |-> None]

\* What session.send does with the outcome of an attempt that was preceded
\* by `failed` retried attempts: "retry", "raise" (with the requests
\* exception) or "return" the response.  The mounted HTTPAdapter retries
\* inside urlopen (Retry.increment, total = retries): a failure to connect
\* for every method, a failure before the headers and a status of the list
\* for the allowed methods only.  A failure inside the body is met after
\* urlopen returned, and is not retried.
session_send(method, failed, o) ==
    LET exhausted == failed + 1 > retries
    IN  CASE o.kind = "connect_error" ->
               IF exhausted THEN [do |-> "raise", error |-> "ConnectionError"]
               ELSE [do |-> "retry", error |-> None]
          [] o.kind = "connect_timeout" ->
               IF exhausted THEN [do |-> "raise", error |-> "ConnectTimeout"]
               ELSE [do |-> "retry", error |-> None]
          [] o.kind = "read_error" ->
               IF method \notin allowed_methods
               THEN [do |-> "raise", error |-> "ReadTimeout"]
               ELSE IF exhausted THEN [do |-> "raise", error |-> "ConnectionError"]
               ELSE [do |-> "retry", error |-> None]
          [] o.kind = "disconnected" ->
               IF method \notin allowed_methods \/ exhausted
               THEN [do |-> "raise", error |-> "ConnectionError"]
               ELSE [do |-> "retry", error |-> None]
          [] OTHER ->
               IF is_retry(method, o.status_code)
               THEN IF exhausted THEN [do |-> "raise", error |-> "RetryError"]
                    ELSE [do |-> "retry", error |-> None]
               ELSE IF read_content(o) # None
               THEN [do |-> "raise", error |-> read_content(o)]
               ELSE [do |-> "return", error |-> None]

\* only server errors raise
raise_for_status_5xx(status_code) == status_code >= 500 /\ status_code < 600

\* Response.raise_for_status(): HTTPError for 400 <= status < 600
raise_for_status(status_code) == status_code >= 400 /\ status_code < 600

\* a JSON array as a Python value: a list, which has no .get; `fresh` stands
\* for its elements
ListValue(fresh) == [list |-> fresh]

\* isinstance(value, dict): the values of the model that have .get
is_dict(value) == "list" \notin DOMAIN value

\* _response.json() raises JSONDecodeError: the body is no JSON
json_raises(o) == o.body = "text"

\* _response.json() of a JSON body; `fresh` is the identifier the remote
\* system gave the record
response_json(o, fresh) ==
    IF o.body = "array" THEN ListValue(fresh)
    ELSE IF o.has_id THEN [id |-> fresh, display |-> "obj-" \o fresh]
    ELSE [display |-> "obj-" \o fresh]

\* the status is checked before the text of the response
http_call_status_first(o, fresh) ==
    IF raise_for_status(o.status_code) THEN [error |-> "HTTPError", value |-> EmptyDict]
    ELSE IF o.already_exists THEN [error |-> "ValueError", value |-> EmptyDict]
    ELSE IF o.status_code = 204 THEN [error |-> None, value |-> EmptyDict]
    ELSE IF json_raises(o) THEN [error |-> "JSONDecodeError", value |-> EmptyDict]
    ELSE [error |-> None, value |-> response_json(o, fresh)]

\* http_call after session.send returned the response o: the exception it
\* raises, or the dict it returns
http_call(o, fresh) ==
    IF o.already_exists THEN [error |-> "ValueError", value |-> EmptyDict]
    ELSE IF raise_for_status(o.status_code) THEN [error |-> "HTTPError", value |-> EmptyDict]
    ELSE IF o.status_code = 204 THEN [error |-> None, value |-> EmptyDict]
    ELSE IF json_raises(o) THEN [error |-> "JSONDecodeError", value |-> EmptyDict]
    ELSE [error |-> None, value |-> response_json(o, fresh)]

(***************************************************************************)
(* utils_load_nautobot_data: the merge loop                                *)
(***************************************************************************)
\* the keys the dict already has keep their values
dict_update_keeping(d, value) ==
    [k \in DOMAIN d \cup DOMAIN value |-> IF k \in DOMAIN d THEN d[k] ELSE value[k]]

\* dict.update(value): the keys of value are added or overwritten
dict_update(d, value) ==
    [k \in DOMAIN d \cup DOMAIN value |-> IF k \in DOMAIN value THEN value[k] ELSE d[k]]

\* `key in topology_dict.get("topology", {}).get("nodes", {})`
NodeKeys(nodes) == {nodes[j].key : j \in DOMAIN nodes}

\* the interface list of the override is appended to the node's own list
update_node_deep(nodes, key, value) ==
    [j \in DOMAIN nodes |->
        IF nodes[j].key = key
        THEN [key |-> key,
              data |-> [k \in DOMAIN nodes[j].data \cup DOMAIN value |->
                          IF k \notin DOMAIN value THEN nodes[j].data[k]
                          ELSE IF k = "interfaces" /\ k \in DOMAIN nodes[j].data
                          THEN nodes[j].data[k] \o value[k]
                          ELSE value[k]]]
        ELSE nodes[j]]

\* topology_dict["topology"]["nodes"][key].update(value)
update_node(nodes, key, value) ==
    [j \in DOMAIN nodes |->
        IF nodes[j].key = key
        THEN [key |-> key, data |-> dict_update(nodes[j].data, value)]
        ELSE nodes[j]]

\* a key the topology does not have is added to it
RECURSIVE merge_nodes_adding(_, _)
merge_nodes_adding(nodes, items) ==
    IF items = <<>> THEN nodes
    ELSE merge_nodes_adding(
            IF Head(items).key \in NodeKeys(nodes)
            THEN update_node(nodes, Head(items).key, Head(items).data)
            ELSE Append(nodes, Head(items)),
            Tail(items))

\* for key, value in extra_topology_vars_dict.get("nodes", {}).items(): ...
\* the node mapping after the loop has processed the override items `items`
RECURSIVE merge_nodes(_, _)
merge_nodes(nodes, items) ==
    IF items = <<>> THEN nodes
    ELSE merge_nodes(
            IF Head(items).key \in NodeKeys(nodes)
            THEN update_node(nodes, Head(items).key, Head(items).data)
            ELSE nodes,
            Tail(items))

\* the console.log(..., style="warning") messages of the loop, in order
RECURSIVE merge_warnings(_, _)
merge_warnings(nodes, items) ==
    IF items = <<>> THEN <<>>
    ELSE (IF Head(items).key \in NodeKeys(nodes) THEN <<>>
          ELSE <<[text |-> "Key not found in topology_dict", args |-> <<Head(items).key>>]>>)
         \o merge_warnings(nodes, Tail(items))

(***************************************************************************)
(* utils_load_nautobot_data: the chain of calls.  A position is the call   *)
(* statement the function is at, with the indices of the enclosing loops   *)
(* (n: prefix or node, i: interface); a statement is named after the local *)
(* variable it assigns.                                                    *)
(***************************************************************************)
Pos(at, n, i) == [at |-> at, n |-> n, i |-> i]

node_data(topo, n) == topo.nodes[n].data

\* the loop skips the first declared interface
interfaces_but_first(topo, n) ==
    LET declared == GetOr(node_data(topo, n), "interfaces", <<>>)
    IN  IF declared = <<>> THEN <<>> ELSE Tail(declared)

\* the interface is created before its address
interface_steps_swapped == <<"interface", "ip_address", "mapping">>

interfaces(topo, n) == GetOr(node_data(topo, n), "interfaces", <<>>)
prefixes(extra) == GetOr(extra, "prefixes", <<>>)

\* the device type created before its manufacturer
top_level_type_first ==
    <<"roles", "device_types", "manufacturers", "location_type", "statuses",
      "alerted_statuses", "locations", "ipam_namespace">>

\* lines 157-241: the calls before the loops, in statement order
top_level ==
    <<"roles", "manufacturers", "device_types", "location_type", "statuses",
      "alerted_statuses", "locations", "ipam_namespace">>

\* lines 294-337: the calls of the body of the interface loop
interface_steps == <<"ip_address", "interface", "mapping">>

\* the device patched before the management mapping is created
mgmt_steps_patch_early ==
    <<"mgmt_ip_address", "mgmt_interface", "device_patch", "mgmt_mapping">>

\* lines 339-393: the calls of a node after its interface loop
mgmt_steps == <<"mgmt_ip_address", "mgmt_interface", "mgmt_mapping", "device_patch">>

IndexOf(seq, x) == CHOOSE j \in DOMAIN seq : seq[j] = x

\* the statement control reaches after the call at p has returned
next_pos(p, topo, extra) ==
    LET j(seq) == IndexOf(seq, p.at)
        rest(seq) == Pos(seq[j(seq) + 1], p.n, p.i)
        mgmt == Pos(mgmt_steps[1], p.n, 0)
    IN  CASE p.at \in Range(top_level) ->
               IF j(top_level) < Len(top_level) THEN rest(top_level)
               ELSE IF Len(prefixes(extra)) > 0 THEN Pos("prefix", 1, 0)
               ELSE Pos("mgmt_prefix", 0, 0)
          [] p.at = "prefix" ->
               IF p.n < Len(prefixes(extra)) THEN Pos("prefix", p.n + 1, 0)
               ELSE Pos("mgmt_prefix", 0, 0)
          [] p.at = "mgmt_prefix" ->
               IF Len(topo.nodes) > 0 THEN Pos("device", 1, 0) ELSE Pos("end", 0, 0)
          [] p.at = "device" ->
               IF Len(interfaces(topo, p.n)) > 0 THEN Pos(interface_steps[1], p.n, 1) ELSE mgmt
          [] p.at \in Range(interface_steps) ->
               IF j(interface_steps) < Len(interface_steps) THEN rest(interface_steps)
               ELSE IF p.i < Len(interfaces(topo, p.n)) THEN Pos(interface_steps[1], p.n, p.i + 1)
               ELSE mgmt
          [] p.at \in Range(mgmt_steps) ->
               IF j(mgmt_steps) < Len(mgmt_steps) THEN rest(mgmt_steps)
               ELSE IF p.n < Len(topo.nodes) THEN Pos("device", p.n + 1, 0)
               ELSE Pos("end", 0, 0)

\* the alerted status is assigned to `statuses`
local_name_status_rebound(p) ==
    IF p.at = "device_patch" THEN "device"
    ELSE IF p.at = "alerted_statuses" THEN "statuses"
    ELSE p.at

\* the local variable the call at p assigns (the PATCH rebinds `device`)
local_name(p) == IF p.at = "device_patch" THEN "device" ELSE p.at

\* the device is replaced with PUT
method_put(p) == IF p.at = "device_patch" THEN "PUT" ELSE "POST"

\* method.upper()
method(p) == IF p.at = "device_patch" THEN "PATCH" ELSE "POST"

\* the status is read from `alerted_statuses`
id_of_alerted(loc, name) ==
    Get(loc[IF name = "statuses" THEN "alerted_statuses" ELSE name], "id")

\* the management address is read from `ip_address` once an interface
\* address has been created
id_of_unscoped(loc, name) ==
    Get(loc[IF name = "mgmt_ip_address" /\ "ip_address" \in DOMAIN loc
            THEN "ip_address" ELSE name], "id")

\* <local>.get("id") of a local variable
id_of(loc, name) == Get(loc[name], "id")
display_of(loc, name) == Get(loc[name], "display")

\* the url argument, as its literal and formatted parts
url(p, loc) ==
    CASE p.at = "roles" -> <<"/api/extras/roles/">>
      [] p.at = "manufacturers" -> <<"/api/dcim/manufacturers/">>
      [] p.at = "device_types" -> <<"/api/dcim/device-types/">>
      [] p.at = "location_type" -> <<"/api/dcim/location-types/">>
      [] p.at \in {"statuses", "alerted_statuses"} -> <<"/api/extras/statuses/">>
      [] p.at = "locations" -> <<"/api/dcim/locations/">>
      [] p.at = "ipam_namespace" -> <<"/api/ipam/namespaces/">>
      [] p.at \in {"prefix", "mgmt_prefix"} -> <<"/api/ipam/prefixes/">>
      [] p.at = "device" -> <<"/api/dcim/devices/">>
      [] p.at \in {"ip_address", "mgmt_ip_address"} -> <<"/api/ipam/ip-addresses/">>
      [] p.at \in {"interface", "mgmt_interface"} -> <<"/api/dcim/interfaces/">>
      [] p.at \in {"mapping", "mgmt_mapping"} -> <<"/api/ipam/ip-address-to-interface/">>
      [] p.at = "device_patch" -> <<"/api/dcim/devices/", id_of(loc, "device"), "/">>

\* the subscripts d["k"] evaluated while the json_data of the call at p is
\* built: a key missing from the dict raises KeyError
subscripts(p, topo, extra) ==
    CASE p.at = "prefix" -> {<<prefixes(extra)[p.n], "prefix">>, <<prefixes(extra)[p.n], "name">>}
      [] p.at = "ip_address" -> {<<interfaces(topo, p.n)[p.i], "ipv4">>}
      [] p.at = "interface" -> {<<interfaces(topo, p.n)[p.i], "name">>}
      [] OTHER -> {}

raises_KeyError(p, topo, extra) ==
    \E s \in subscripts(p, topo, extra) : s[2] \notin DOMAIN s[1]

StatusContentTypes ==
    {"dcim.device", "dcim.interface", "dcim.location", "ipam.ipaddress", "ipam.prefix"}

\* the json_data argument; a nested {"id": x} is the field's value x
json_data(p, topo, extra, loc) ==
    LET status == id_of(loc, "statuses")
        namespace == id_of(loc, "ipam_namespace")
    IN  CASE p.at = "roles" ->
               [name |-> "network_device", content_types |-> {"dcim.device"}]
          [] p.at = "manufacturers" -> [name |-> "Arista"]
          [] p.at = "device_types" -> [manufacturer |-> "Arista", model |-> "cEOS"]
          [] p.at = "location_type" -> [name |-> "site", content_types |-> {"dcim.device"}]
          [] p.at = "statuses" ->
               [name |-> "lab-active", content_types |-> StatusContentTypes, color |-> "aaf0d1"]
          [] p.at = "alerted_statuses" ->
               [name |-> "Alerted", content_types |-> StatusContentTypes, color |-> "ff5a36"]
          [] p.at = "locations" ->
               [name |-> "lab", location_type |-> id_of(loc, "location_type"), status |-> status]
          [] p.at = "ipam_namespace" -> [name |-> "lab-default"]
          [] p.at = "prefix" ->
               [prefix |-> prefixes(extra)[p.n]["prefix"], namespace |-> namespace,
                type |-> "network", status |-> status,
                description |-> prefixes(extra)[p.n]["name"]]
          [] p.at = "mgmt_prefix" ->
               [prefix |-> Get(topo.mgmt, "ipv4-subnet"), namespace |-> namespace,
                type |-> "network", status |-> status, description |-> "lab-mgmt-prefix"]
          [] p.at = "device" ->
               [name |-> topo.nodes[p.n].key, role |-> id_of(loc, "roles"),
                device_type |-> id_of(loc, "device_types"),
                location |-> id_of(loc, "locations"), status |-> status,
                node_kind |-> Get(node_data(topo, p.n), "kind"),
                node_address |-> Get(node_data(topo, p.n), "mgmt-ipv4")]
          [] p.at = "ip_address" ->
               [address |-> interfaces(topo, p.n)[p.i]["ipv4"], status |-> status,
                namespace |-> namespace, type |-> "host"]
          [] p.at = "interface" ->
               [device |-> id_of(loc, "device"), name |-> interfaces(topo, p.n)[p.i]["name"],
                type |-> "virtual", enabled |-> TRUE,
                description |-> "Interface " \o interfaces(topo, p.n)[p.i]["name"],
                status |-> status,
                label |-> Get(interfaces(topo, p.n)[p.i], "role")]
          [] p.at = "mapping" ->
               [ip_address |-> id_of(loc, "ip_address"), interface |-> id_of(loc, "interface")]
          [] p.at = "mgmt_ip_address" ->
               [address |-> Get(node_data(topo, p.n), "mgmt-ipv4"), status |-> status,
                namespace |-> namespace, type |-> "host"]
          [] p.at = "mgmt_interface" ->
               [device |-> id_of(loc, "device"), name |-> "Management0",
                type |-> "virtual", enabled |-> TRUE,
                description |-> "Management Interface",
                status |-> status, label |-> "mgmt"]
          [] p.at = "mgmt_mapping" ->
               [ip_address |-> id_of(loc, "mgmt_ip_address"),
                interface |-> id_of(loc, "mgmt_interface")]
          [] p.at = "device_patch" -> [primary_ip4 |-> id_of(loc, "mgmt_ip_address")]

\* the console.log message after the call at p returned; `loc` already
\* holds the returned dict
step_event(p, loc) ==
    LET one(text) == [text |-> text, args |-> <<display_of(loc, local_name(p))>>]
        two(text) ==
            [text |-> text, args |-> <<display_of(loc, "device"), display_of(loc, local_name(p))>>]
    IN  CASE p.at = "roles" -> one("Created Role")
          [] p.at = "manufacturers" -> one("Created Manufacturer")
          [] p.at = "device_types" -> one("Created Device Types")
          [] p.at = "location_type" -> one("Created Location Type")
          [] p.at \in {"statuses", "alerted_statuses"} -> one("Created Status")
          [] p.at = "locations" -> one("Created Location")
          [] p.at = "ipam_namespace" -> one("Created IPAM Namespace")
          [] p.at \in {"prefix", "mgmt_prefix"} -> one("Created Prefix")
          [] p.at = "device" -> one("Created Device")
          [] p.at = "ip_address" -> one("Created IP Address")
          [] p.at = "interface" -> two("Created Interface")
          [] p.at = "mapping" -> one("Created IP Address to Interface Mapping")
          [] p.at = "mgmt_ip_address" -> one("Created Mgmt IP Address")
          [] p.at = "mgmt_interface" -> two("Created Mgmt Interface")
          [] p.at = "mgmt_mapping" -> one("Created Mgmt IP Address to Interface Mapping")
          [] p.at = "device_patch" -> one("Updated Device")

(***************************************************************************)
(* The explored inputs: the two documents and the behaviour of the remote  *)
(* end.                                                                    *)
(***************************************************************************)
NodeNames == <<"leaf1", "leaf2", "spine1", "spine2", "host1">>
IntfNames == <<"Ethernet1", "Ethernet2", "Ethernet3">>

\* interface j of node x, named against the order of the list; every other
\* one declares a role
Intf(x, j) ==
    LET base == [name |-> IntfNames[MaxIntf + 1 - j],
                 ipv4 |-> "10." \o ToString(x) \o "." \o ToString(j) \o ".1/31"]
    IN  IF (x + j) % 2 = 0 THEN dict_update(base, [role |-> "fabric"]) ELSE base

\* node x with k declared interfaces; without any, the key is left out
Node(x, k) ==
    LET base == ("kind" :> "ceos") @@ ("mgmt-ipv4" :> ("172.20.20." \o ToString(x)))
    IN  [key |-> NodeNames[x],
         data |-> IF k = 0 THEN base
                  ELSE dict_update(base, [interfaces |-> [j \in 1..k |-> Intf(x, j)]])]

\* sequences of distinct elements of S, of length at most n
RECURSIVE InjectiveSeqs(_, _)
InjectiveSeqs(S, n) ==
    IF n = 0 THEN {<<>>}
    ELSE LET shorter == InjectiveSeqs(S, n - 1)
         IN  shorter \cup
             UNION {{Append(q, x) : x \in S \ Range(q)} : q \in {r \in shorter : Len(r) = n - 1}}

MgmtSubnet == "172.20.20.0/24"

\* the primary documents: up to MaxNodes nodes in any insertion order, each
\* with no interface, one, or MaxIntf of them
Topologies ==
    {[mgmt |-> ("ipv4-subnet" :> MgmtSubnet),
      nodes |-> [j \in 1..Len(order) |-> Node(order[j], k[order[j]])]] :
        order \in InjectiveSeqs(1..MaxNodes, MaxNodes),
        k \in [1..MaxNodes -> {0, 1, MaxIntf}]}

PrefixEntry(j) ==
    [prefix |-> "10." \o ToString(j) \o ".0.0/16", name |-> "fabric-" \o ToString(j)]

\* per-node overrides: a new kind and an added field, or an emptied
\* interface list
OverrideData == {[kind |-> "linux", group |-> "edge"], [interfaces |-> <<>>]}

\* a prefix list of c entries, listed against the order of their values
PrefixList(c) == [j \in 1..c |-> PrefixEntry(c + 1 - j)]

\* the overrides documents: up to MaxPrefixes prefixes, and with the longest
\* list at most one node entry, for a node of the topology or for the name
\* after them; a key without entries is left out of the document
ExtraVars ==
    LET Entries == {<<>>} \cup {<<[key |-> NodeNames[x], data |-> d]>> :
                                   x \in 1..(MaxNodes + 1), d \in OverrideData}
        Choices == {c \in Entries \X (0..MaxPrefixes) : c[1] = <<>> \/ c[2] = MaxPrefixes}
    IN  {dict_update(IF c[1] = <<>> THEN EmptyDict ELSE [nodes |-> c[1]],
                     IF c[2] = 0 THEN EmptyDict
                     ELSE [prefixes |-> PrefixList(c[2])]) : c \in Choices}

\* the largest well-formed documents
FullTopology ==
    [mgmt |-> ("ipv4-subnet" :> MgmtSubnet),
     nodes |-> [j \in 1..MaxNodes |-> Node(j, MaxIntf)]]
FullExtraVars == [prefixes |-> PrefixList(MaxPrefixes)]

\* d without the key k
without(d, k) == [x \in DOMAIN d \ {k} |-> d[x]]

\* FullTopology with one field absent: the management subnet, a node's kind
\* or management address, or an interface's name or address
DefectiveTopologies ==
    {[FullTopology EXCEPT !.mgmt = EmptyDict]}
    \cup {[FullTopology EXCEPT !.nodes[n].data = without(@, k)] :
            n \in 1..MaxNodes, k \in {"kind", "mgmt-ipv4"}}
    \cup {[FullTopology EXCEPT !.nodes[n].data["interfaces"][i] = without(@, k)] :
            n \in 1..MaxNodes, i \in 1..MaxIntf, k \in {"name", "ipv4"}}

\* FullExtraVars with one field of one prefix entry absent
DefectiveExtraVars ==
    {[FullExtraVars EXCEPT !.prefixes[j] = without(@, k)] :
        j \in 1..MaxPrefixes, k \in {"prefix", "name"}}

Urls ==
    {"/api/extras/roles/", "/api/dcim/manufacturers/", "/api/dcim/device-types/",
     "/api/dcim/location-types/", "/api/extras/statuses/", "/api/dcim/locations/",
     "/api/ipam/namespaces/", "/api/ipam/prefixes/", "/api/dcim/devices/",
     "/api/ipam/ip-addresses/", "/api/dcim/interfaces/", "/api/ipam/ip-address-to-interface/"}

StatusCodes == {200, 201, 204, 300, 400, 404, 429, 500, 503}

\* the record is stored and returned
Success(route) == Response(IF route[1] = "PATCH" THEN 200 ELSE 201, FALSE, TRUE)
NotFound == Response(404, FALSE, FALSE)
NoContent == Response(204, FALSE, FALSE)

\* every way an attempt can end other than with a stored record
Faults ==
    {ConnectError, ReadError, Disconnected}
    \cup {Response(s, TRUE, h) : s \in StatusCodes, h \in BOOLEAN}
    \cup {Response(s, FALSE, FALSE) : s \in {c \in StatusCodes : c >= 400}}
    \cup {NonObjectResponse(201, "stalled"), NonObjectResponse(200, "truncated"),
          NonObjectResponse(404, "truncated")}

\* an upper bound on the number of requests of a run over the explored
\* documents (only used to place the special request below)
MaxRequests == 9 + MaxPrefixes + MaxNodes * (5 + 3 * MaxIntf)

\* The remote end stores the record of every request, or answers 404; on
\* the requests whose numbers are in `at` it behaves in one of the `special`
\* ways instead.
RemoteEnd(at, special) ==
    [at |-> at, special |-> special, default |-> {NotFound}, slow |-> FALSE]

Plain == RemoteEnd({}, {})

\* remote ends that may answer one request with 204 No Content, or with a
\* 2xx body that has no "id"
Idless ==
    {RemoteEnd({k}, {o}) : k \in 1..MaxRequests, o \in {NoContent, Response(200, FALSE, FALSE)}}

\* remote ends that may answer one request with 300 Multiple Choices (a 3xx
\* that the session does not follow) and a JSON body, with or without "id"
MultipleChoices ==
    {RemoteEnd({k}, {Response(300, FALSE, h) : h \in BOOLEAN}) : k \in 1..MaxRequests}

\* remote ends that may answer one request with a 2xx whose body is a JSON
\* array, or no JSON at all
Malformed ==
    {RemoteEnd({k}, {NonObjectResponse(201, "array"), NonObjectResponse(200, "text")}) :
        k \in 1..MaxRequests}

\* remote ends on which the attempts of one request can fail in every way
Faulty == {RemoteEnd({k}, Faults) : k \in 1..MaxRequests}

\* remote ends that cannot always be reached, or do not always answer, on
\* two requests in a row: the first two, or the last two of the longest run
\* (there with every way not to be reached and not to answer)
Unreachable ==
    {RemoteEnd({1, 2}, {ConnectError, ReadError}),
     RemoteEnd({MaxRequests - 1, MaxRequests},
               {ConnectError, ConnectTimedOut, ReadError, Disconnected})}

\* remote ends that on the last two requests of the longest run cannot
\* always be reached and may send the body of the response chunk after
\* chunk, each within the timeout, for as long as they like; they may close
\* the connection in it
Slow ==
    {[RemoteEnd({MaxRequests - 1, MaxRequests},
                {ConnectError, NonObjectResponse(200, "truncated")})
        EXCEPT !.slow = TRUE]}

\* the route a request is for: the method and the literal head of the url
Route(c) == <<c.method, c.url[1]>>

\* the outcomes an attempt of request number n, on `route`, can have
outcomes(t, n, route) == {Success(route)} \cup (IF n \in t.at THEN t.special ELSE t.default)

\* the remote end may send the body of the response to request number n in
\* chunks
sends_chunks(t, n) == t.slow /\ n \in t.at

\* the count of the chunks after one more
more_chunks(n) == IF n < MaxChunks THEN n + 1 ELSE 1

\* the outcomes the attempt in progress of the call c, request number n, can
\* have: once a chunk of the body has arrived, those of a response
endings(t, n, c) ==
    {o \in outcomes(t, n, Route(c)) : c.chunks > 0 => o.kind = "response"}

\* the explored combinations of documents and remote end: every topology
\* with the longest prefix list, the largest topology with every overrides
\* document, the documents with an absent field, and the largest documents
\* with every remote end
Scenarios ==
    (Topologies \X {FullExtraVars} \X {Plain})
    \cup ({FullTopology} \X ExtraVars \X {Plain})
    \cup (DefectiveTopologies \X {FullExtraVars} \X {Plain})
    \cup ({FullTopology} \X DefectiveExtraVars \X {Plain})
    \cup ({FullTopology} \X {FullExtraVars} \X (Idless \cup MultipleChoices \cup Malformed \cup Faulty \cup Unreachable \cup Slow))

(***************************************************************************)
(* The button handler                                                      *)
(***************************************************************************)
CallStatements ==
    {"roles", "manufacturers", "device_types", "location_type", "statuses",
     "alerted_statuses", "locations", "ipam_namespace", "prefix", "mgmt_prefix",
     "device", "ip_address", "interface", "mapping", "mgmt_ip_address",
     "mgmt_interface", "mgmt_mapping", "device_patch"}

Init ==
    /\ \E s \in Scenarios :
        /\ topology_dict = s[1]
        /\ extra_topology_vars_dict = s[2]
        /\ transport = s[3]
    /\ pc = Pos("start", 0, 0)
    /\ locals = EmptyDict
    /\ log = <<>>
    /\ events = <<>>
    /\ shown = <<"Starting data load...">>

InFlight == log # <<>> /\ log[Len(log)].state = "inflight"

\* the exception is swallowed and the same statement runs again
AbortSwallowed(e) ==
    /\ pc' = pc
    /\ shown' = shown

\* the uncaught exception e ends utils_load_nautobot_data; the handler's
\* except clause renders it
Abort(e) ==
    /\ pc' = Pos("failed", 0, 0)
    /\ shown' = Append(shown, "An error occurred: " \o e)

\* lines 136-155: the opening messages, the merge loop and the client
Load ==
    /\ pc.at = "start"
    /\ LET items == GetOr(extra_topology_vars_dict, "nodes", <<>>)
       IN  /\ topology_dict' =
                [topology_dict EXCEPT !.nodes = merge_nodes(topology_dict.nodes, items)]
           /\ events' =
                <<[text |-> "Loading Nautobot data from topology file", args |-> <<>>],
                  [text |-> "Reading containerlab topology file", args |-> <<>>],
                  [text |-> "Reading extra topology vars file", args |-> <<>>]>>
                \o merge_warnings(topology_dict.nodes, items)
                \o <<[text |-> "Instantiating Nautobot Client", args |-> <<>>]>>
    /\ pc' = Pos(top_level[1], 0, 0)
    /\ UNCHANGED <<extra_topology_vars_dict, transport, locals, log, shown>>

\* the arguments of the next http_call are evaluated and the request is
\* handed to session.send
Request ==
    /\ pc.at \in CallStatements
    /\ ~InFlight
    /\ ~raises_KeyError(pc, topology_dict, extra_topology_vars_dict)
    /\ log' = Append(log,
                [method |-> method(pc), url |-> url(pc, locals),
                 json |-> json_data(pc, topology_dict, extra_topology_vars_dict, locals),
                 at |-> pc, attempts |-> <<>>, chunks |-> 0, state |-> "inflight",
                 error |-> None, value |-> EmptyDict])
    /\ UNCHANGED <<topology_dict, extra_topology_vars_dict, transport, pc, locals, events, shown>>

\* evaluating the arguments of the next http_call raises KeyError
RequestKeyError ==
    /\ pc.at \in CallStatements
    /\ ~InFlight
    /\ raises_KeyError(pc, topology_dict, extra_topology_vars_dict)
    /\ Abort("KeyError")
    /\ UNCHANGED <<topology_dict, extra_topology_vars_dict, transport, locals, log, events>>

\* session.send is reading the body of a response (r.content, timeout =
\* self.timeout for every read of the socket): one more chunk arrives
\* within the timeout and the attempt goes on
Receive ==
    /\ InFlight
    /\ sends_chunks(transport, Len(log))
    /\ log' = [log EXCEPT ![Len(log)].chunks = more_chunks(@)]
    /\ UNCHANGED <<topology_dict, extra_topology_vars_dict, transport, pc, locals, events, shown>>

\* an attempt fails and urllib3 sends the request again
Retry ==
    /\ InFlight
    /\ LET c == log[Len(log)]
       IN  \E o \in endings(transport, Len(log), c) :
             /\ session_send(c.method, Len(c.attempts), o).do = "retry"
             /\ log' = [log EXCEPT ![Len(log)] =
                          [@ EXCEPT !.attempts = Append(@, o), !.chunks = 0]]
    /\ UNCHANGED <<topology_dict, extra_topology_vars_dict, transport, pc, locals, events, shown>>

\* what http_call ends with when the attempt after c.attempts has outcome o:
\* the exception raised (by session.send or by http_call) or the value
outcome(c, o, fresh) ==
    LET sent == session_send(c.method, Len(c.attempts), o)
    IN  IF sent.do = "raise" THEN [error |-> sent.error, value |-> EmptyDict]
        ELSE http_call(o, fresh)

\* http_call raises; nothing catches the exception before the handler
Raise ==
    /\ InFlight
    /\ LET c == log[Len(log)]
       IN  \E o \in endings(transport, Len(log), c) :
             /\ session_send(c.method, Len(c.attempts), o).do # "retry"
             /\ outcome(c, o, ToString(Len(log))).error # None
             /\ log' = [log EXCEPT ![Len(log)] =
                          [@ EXCEPT !.attempts = Append(@, o), !.state = "raised",
                                    !.error = outcome(c, o, ToString(Len(log))).error]]
             /\ Abort(outcome(c, o, ToString(Len(log))).error)
    /\ UNCHANGED <<topology_dict, extra_topology_vars_dict, transport, locals, events>>

\* http_call returns and the value is assigned; then the step is logged and
\* control moves to the next call statement, unless the value is no dict:
\* <value>.get('display') in the message raises AttributeError, nothing is
\* logged and the exception ends the run
Return ==
    /\ InFlight
    /\ LET c == log[Len(log)]
       IN  \E o \in endings(transport, Len(log), c) :
             /\ session_send(c.method, Len(c.attempts), o).do = "return"
             /\ outcome(c, o, ToString(Len(log))).error = None
             /\ LET value == outcome(c, o, ToString(Len(log))).value
                    bound == dict_update(locals, (local_name(pc) :> value))
                IN  /\ log' = [log EXCEPT ![Len(log)] =
                                 [@ EXCEPT !.attempts = Append(@, o), !.state = "returned",
                                           !.value = value]]
                    /\ locals' = bound
                    /\ IF is_dict(value)
                       THEN /\ events' = Append(events, step_event(pc, bound))
                            /\ pc' = next_pos(pc, topology_dict, extra_topology_vars_dict)
                            /\ shown' = shown
                       ELSE /\ events' = events
                            /\ Abort("AttributeError")
    /\ UNCHANGED <<topology_dict, extra_topology_vars_dict, transport>>

\* utils_load_nautobot_data returned: st.success
Finish ==
    /\ pc.at = "end"
    /\ pc' = Pos("done", 0, 0)
    /\ shown' = Append(shown, "Data load process completed (check logs above).")
    /\ UNCHANGED <<topology_dict, extra_topology_vars_dict, transport, locals, log, events>>

Next == Load \/ Request \/ RequestKeyError \/ Receive \/ Retry \/ Raise \/ Return \/ Finish

Spec == Init /\ [][Next]_vars

(***************************************************************************)
(* Reading the call log                                                    *)
(***************************************************************************)
Returned(j) == log[j].state = "returned"
ReturnedId(j) == Get(log[j].value, "id")

IsPost(c, u) == c.method = "POST" /\ c.url = <<u>>
IsPatch(c) == c.method = "PATCH" /\ Len(c.url) = 3 /\ c.url[1] = "/api/dcim/devices/"

IsRole(c) == IsPost(c, "/api/extras/roles/")
IsManufacturer(c) == IsPost(c, "/api/dcim/manufacturers/")
IsDeviceType(c) == IsPost(c, "/api/dcim/device-types/")
IsLocationType(c) == IsPost(c, "/api/dcim/location-types/")
IsActiveStatus(c) == IsPost(c, "/api/extras/statuses/") /\ c.json.name = "lab-active"
IsAlertedStatus(c) == IsPost(c, "/api/extras/statuses/") /\ c.json.name = "Alerted"
IsLocation(c) == IsPost(c, "/api/dcim/locations/")
IsNamespace(c) == IsPost(c, "/api/ipam/namespaces/")
IsPrefix(c) == IsPost(c, "/api/ipam/prefixes/")
IsDevice(c) == IsPost(c, "/api/dcim/devices/")
IsInterface(c) == IsPost(c, "/api/dcim/interfaces/")
IsIPAddress(c) == IsPost(c, "/api/ipam/ip-addresses/")
IsMapping(c) == IsPost(c, "/api/ipam/ip-address-to-interface/")

\* a call satisfying Is has returned before call j was issued
ReturnedBefore(j, Is(_)) == \E i \in 1..(j - 1) : Returned(i) /\ Is(log[i])

\* the call that returned the identifier x before call j, among the calls Is
IdFromBefore(j, Is(_), x) ==
    \E i \in 1..(j - 1) : Returned(i) /\ Is(log[i]) /\ ReturnedId(i) = x

Aborted == pc.at = "failed"
Succeeded == pc.at = "done"

(***************************************************************************)
(* C1: in every run, successful or aborted, a creation call of a dependent *)
(* resource is issued only after the creation calls of all its             *)
(* prerequisites have returned: DeviceType after Manufacturer; Location    *)
(* after LocationType and active Status; Prefix after Namespace and active *)
(* Status; Device after Role, DeviceType, Location and active Status;      *)
(* Interface after its Device and active Status; IPAddress after Namespace *)
(* and active Status; a mapping after its IPAddress and its Interface.     *)
(***************************************************************************)
C1_PrerequisitesFirst ==
    LET \* the calls satisfying Is that have returned
        returned(Is(_)) == {i \in DOMAIN log : Returned(i) /\ Is(log[i])}
        manufacturers == returned(IsManufacturer)
        locationTypes == returned(IsLocationType)
        activeStatuses == returned(IsActiveStatus)
        namespaces == returned(IsNamespace)
        roles == returned(IsRole)
        deviceTypes == returned(IsDeviceType)
        locations == returned(IsLocation)
        devices == returned(IsDevice)
        ipAddresses == returned(IsIPAddress)
        interfaceCalls == returned(IsInterface)
        before(j, S) == \E i \in S : i < j
        \* a call of S returned the identifier x before call j
        idFromBefore(j, S, x) == \E i \in S : i < j /\ ReturnedId(i) = x
    IN  \A j \in DOMAIN log :
            LET c == log[j]
            IN  /\ IsDeviceType(c) => before(j, manufacturers)
                /\ IsLocation(c) => before(j, locationTypes) /\ before(j, activeStatuses)
                /\ IsPrefix(c) => before(j, namespaces) /\ before(j, activeStatuses)
                /\ IsDevice(c) =>
                     /\ before(j, roles)
                     /\ before(j, deviceTypes)
                     /\ before(j, locations)
                     /\ before(j, activeStatuses)
                /\ IsInterface(c) =>
                     /\ before(j, activeStatuses)
                     /\ \E i \in devices :
                          /\ i < j
                          /\ log[i].at.n = c.at.n
                          /\ ReturnedId(i) = c.json.device
                /\ IsIPAddress(c) => before(j, namespaces) /\ before(j, activeStatuses)
                /\ IsMapping(c) =>
                     /\ idFromBefore(j, ipAddresses, c.json.ip_address)
                     /\ idFromBefore(j, interfaceCalls, c.json.interface)

\* an aborted run that got as far as the mapping of a data interface of the
\* second node
C1_Witness ==
    /\ Aborted
    /\ \E j \in DOMAIN log : IsMapping(log[j]) /\ log[j].at.at = "mapping" /\ log[j].at.n = 2

\* the payload fields that hold {"id": ...} of another record
IdFields ==
    {"location_type", "status", "namespace", "role", "device_type", "location",
     "device", "ip_address", "interface", "primary_ip4"}

\* call c carries the identifier d in its path or in its payload
References(c, d) ==
    \/ IsPatch(c) /\ c.url[2] = d
    \/ \E f \in DOMAIN c.json \cap IdFields : c.json[f] = d

NodeIndices == DOMAIN topology_dict.nodes

\* the calls issued while node n is processed
CallsOfNode(n) ==
    {j \in DOMAIN log : log[j].at.n = n /\ log[j].at.at \notin Range(top_level) \cup {"prefix"}}

PatchesOfNode(n) == {j \in CallsOfNode(n) : IsPatch(log[j])}

NodeCompleted(n) == \E j \in PatchesOfNode(n) : Returned(j)

(***************************************************************************)
(* C2: for every node whose processing completes, the Device is patched    *)
(* exactly once, with primary_ip4 the id of that node's management         *)
(* IPAddress; the patch is issued after the management IPAddress, the      *)
(* management Interface and their mapping have been created; and no later  *)
(* call references that device's id in its path or payload.                *)
(***************************************************************************)
C2_PatchIsLast ==
    \A n \in NodeIndices :
        NodeCompleted(n) =>
            LET calls == CallsOfNode(n)
                patches == PatchesOfNode(n)
            IN  /\ Cardinality(patches) = 1
                /\ \A j \in patches :
                     \E dev \in calls :
                        /\ IsDevice(log[dev]) /\ Returned(dev)
                        /\ log[dev].json.name = topology_dict.nodes[n].key
                        /\ log[j].url[2] = ReturnedId(dev)
                        /\ ReturnedId(dev) # None =>
                             \A i \in (j + 1)..Len(log) : ~References(log[i], ReturnedId(dev))
                        /\ \E ip \in calls :
                             /\ dev < ip
                             /\ IsIPAddress(log[ip]) /\ Returned(ip)
                             /\ log[ip].json.address
                                  = Get(node_data(topology_dict, n), "mgmt-ipv4")
                             /\ log[j].json.primary_ip4 = ReturnedId(ip)
                             /\ \E intf \in calls :
                                  /\ ip < intf
                                  /\ IsInterface(log[intf]) /\ Returned(intf)
                                  /\ log[intf].json.name = "Management0"
                                  /\ log[intf].json.device = ReturnedId(dev)
                                  /\ \E map \in calls :
                                       /\ intf < map /\ map < j
                                       /\ IsMapping(log[map]) /\ Returned(map)
                                       /\ log[map].json.ip_address = ReturnedId(ip)
                                       /\ log[map].json.interface = ReturnedId(intf)

\* the first node has been patched and calls of the second node followed
C2_Witness ==
    /\ NodeCompleted(1)
    /\ \E j \in CallsOfNode(2) : IsInterface(log[j]) /\ Returned(j)
    /\ \E j \in CallsOfNode(1) : IsDevice(log[j]) /\ ReturnedId(j) # None

(***************************************************************************)
(* The plan of a successful run, from the two documents: the fixed calls,  *)
(* one Prefix per entry of the overrides prefix list, the management       *)
(* Prefix, then one block per node of the effective node mapping.  An      *)
(* entry is the method, the path and the document value the call carries.  *)
(***************************************************************************)
Step(m, path, what) == [method |-> m, path |-> path, what |-> what]

RECURSIVE Flatten(_)
Flatten(ss) == IF ss = <<>> THEN <<>> ELSE Head(ss) \o Flatten(Tail(ss))

FixedPlan ==
    <<Step("POST", "/api/extras/roles/", "network_device"),
      Step("POST", "/api/dcim/manufacturers/", "Arista"),
      Step("POST", "/api/dcim/device-types/", "cEOS"),
      Step("POST", "/api/dcim/location-types/", "site"),
      Step("POST", "/api/extras/statuses/", "lab-active"),
      Step("POST", "/api/extras/statuses/", "Alerted"),
      Step("POST", "/api/dcim/locations/", "lab"),
      Step("POST", "/api/ipam/namespaces/", "lab-default")>>

InterfaceTriple(intf) ==
    <<Step("POST", "/api/ipam/ip-addresses/", Get(intf, "ipv4")),
      Step("POST", "/api/dcim/interfaces/", Get(intf, "name")),
      Step("POST", "/api/ipam/ip-address-to-interface/", "-")>>

NodeBlock(node) ==
    LET declared == GetOr(node.data, "interfaces", <<>>)
    IN  <<Step("POST", "/api/dcim/devices/", node.key)>>
        \o Flatten([i \in DOMAIN declared |-> InterfaceTriple(declared[i])])
        \o <<Step("POST", "/api/ipam/ip-addresses/", Get(node.data, "mgmt-ipv4")),
             Step("POST", "/api/dcim/interfaces/", "Management0"),
             Step("POST", "/api/ipam/ip-address-to-interface/", "-"),
             Step("PATCH", "/api/dcim/devices/", "-")>>

ExpectedPlan(topo, extra) ==
    LET listed == GetOr(extra, "prefixes", <<>>)
    IN  FixedPlan
        \o [j \in DOMAIN listed |-> Step("POST", "/api/ipam/prefixes/", Get(listed[j], "prefix"))]
        \o <<Step("POST", "/api/ipam/prefixes/", Get(topo.mgmt, "ipv4-subnet"))>>
        \o Flatten([n \in DOMAIN topo.nodes |-> NodeBlock(topo.nodes[n])])

\* what a logged call is in terms of the plan
StepOf(c) ==
    Step(c.method, c.url[1],
         IF "name" \in DOMAIN c.json THEN c.json.name
         ELSE IF "model" \in DOMAIN c.json THEN c.json.model
         ELSE IF "prefix" \in DOMAIN c.json THEN c.json.prefix
         ELSE IF "address" \in DOMAIN c.json THEN c.json.address
         ELSE "-")

Loaded == pc.at # "start"

IsPrefixOf(s, t) == Len(s) <= Len(t) /\ \A j \in DOMAIN s : s[j] = t[j]

(***************************************************************************)
(* What C3 says of a call that ended in a terminal failure (conflict,      *)
(* status that is not retried, retries exhausted, transport error, body    *)
(* that is no JSON): no further call is issued, the calls before it        *)
(* returned and are the calls of the plan of the successful run, and the   *)
(* handler is given the very error the client raised.                      *)
(***************************************************************************)
FailureAborts(j) ==
    /\ j = Len(log)
    /\ Aborted
    /\ log[j].error \in {"ValueError", "HTTPError", "ConnectionError", "ConnectTimeout",
                         "ReadTimeout", "ChunkedEncodingError", "JSONDecodeError"}
    /\ shown[Len(shown)] = "An error occurred: " \o log[j].error
    /\ IsPrefixOf([i \in DOMAIN log |-> StepOf(log[i])],
                  ExpectedPlan(topology_dict, extra_topology_vars_dict))
    /\ \A i \in 1..(j - 1) : Returned(i)

(***************************************************************************)
(* C3 as claimed: when a client call ends in a terminal failure the run    *)
(* aborts as above, and the call log is a strict prefix of the plan of the *)
(* successful run: the plan has calls after the failed one.                *)
(***************************************************************************)
C3_StrictPrefix ==
    \A j \in DOMAIN log :
        log[j].state = "raised" =>
            /\ FailureAborts(j)
            /\ Len(log) < Len(ExpectedPlan(topology_dict, extra_topology_vars_dict))

(***************************************************************************)
(* C3 as amended: when a client call ends in a terminal failure the run    *)
(* aborts as above, and the call log is a prefix of the plan of the        *)
(* successful run that ends at the failed call; it is the whole plan       *)
(* exactly when the failed call is the last of the plan (the PATCH of the  *)
(* last node or, without nodes, the management Prefix), and a strict       *)
(* prefix otherwise.                                                       *)
(***************************************************************************)
C3_FailureAborts ==
    \A j \in DOMAIN log :
        log[j].state = "raised" =>
            LET plan == ExpectedPlan(topology_dict, extra_topology_vars_dict)
                last == Len(topology_dict.nodes)
            IN  /\ FailureAborts(j)
                /\ Len(log) = Len(plan) <=>
                      IF last = 0 THEN log[j].at.at = "mgmt_prefix"
                      ELSE IsPatch(log[j]) /\ log[j].at.n = last

\* the retries of a call in the middle of the plan are exhausted
C3_Witness ==
    /\ Aborted
    /\ Len(log) > Len(top_level)
    /\ log[Len(log)].error = "ConnectionError"
    /\ Len(log[Len(log)].attempts) = retries + 1
    /\ Len(log) < Len(ExpectedPlan(topology_dict, extra_topology_vars_dict))

(***************************************************************************)
(* Reading the attempts of a call                                          *)
(***************************************************************************)
Finished(j) == log[j].state # "inflight"

IsStatus(o, status_code) ==
    o.kind = "response" /\ o.status_code = status_code /\ ~o.already_exists

(***************************************************************************)
(* C4: with N = retries attempts configured, a POST or PATCH call whose    *)
(* attempts are answered 503 is attempted again until N attempts are       *)
(* made: a 503 on an attempt before the N-th is followed by another        *)
(* attempt, and N answers of 503 end the call in a retry-exhausted error.  *)
(***************************************************************************)
C4_RetriedOn503 ==
    \A j \in DOMAIN log :
        Finished(j) =>
            LET a == log[j].attempts
            IN  /\ \A k \in DOMAIN a : (IsStatus(a[k], 503) /\ k < retries) => k < Len(a)
                /\ (\A k \in DOMAIN a : IsStatus(a[k], 503)) =>
                      Len(a) = retries /\ log[j].error = "RetryError"

(***************************************************************************)
(* C5: whatever its status code, a response whose text contains "already   *)
(* exists" ends the call with the conflict error (ValueError, not the      *)
(* HTTPError of a status), without another attempt and without a result.   *)
(***************************************************************************)
C5_ConflictFirst ==
    \A j \in DOMAIN log :
        \A k \in DOMAIN log[j].attempts :
            LET o == log[j].attempts[k]
            IN  (o.kind = "response" /\ o.already_exists) =>
                    /\ k = Len(log[j].attempts)
                    /\ log[j].state = "raised"
                    /\ log[j].error = "ValueError"
                    /\ log[j].value = EmptyDict
                    /\ Aborted

\* conflicts were raised for a 2xx answer and for an answer with a status of
\* the retry list
C5_Witness ==
    /\ log # <<>>
    /\ LET a == log[Len(log)].attempts
       IN  /\ a # <<>>
           /\ a[Len(a)].already_exists
           /\ a[Len(a)].status_code \in status_forcelist
           /\ log[Len(log)].error = "ValueError"

\* a response, received whole, with a 4xx/5xx status outside the retry list
\* and without the conflict marker
IsClientError(o) ==
    /\ o.kind = "response" /\ ~o.already_exists
    /\ read_content(o) = None
    /\ o.status_code >= 400 /\ o.status_code < 600
    /\ o.status_code \notin status_forcelist

(***************************************************************************)
(* C6 as claimed: a response with a 4xx/5xx status outside the retry list  *)
(* and without the conflict marker ends the call after exactly one         *)
(* attempt with an HTTPError.                                              *)
(***************************************************************************)
C6_ExactlyOneAttempt ==
    \A j \in DOMAIN log :
        \A k \in DOMAIN log[j].attempts :
            IsClientError(log[j].attempts[k]) =>
                /\ Len(log[j].attempts) = 1
                /\ log[j].state = "raised"
                /\ log[j].error = "HTTPError"

(***************************************************************************)
(* C6 as amended: a response with a 4xx/5xx status outside the retry list  *)
(* and without the conflict marker ends the call with an HTTPError at      *)
(* that attempt: no attempt follows it and the run aborts.  The attempts   *)
(* before it, at most `retries` of them, all failed to connect, so that a  *)
(* call whose first attempt is so answered makes exactly one attempt.      *)
(***************************************************************************)
C6_ClientErrorTerminal ==
    \A j \in DOMAIN log :
        \A k \in DOMAIN log[j].attempts :
            IsClientError(log[j].attempts[k]) =>
                /\ k = Len(log[j].attempts)
                /\ k <= retries + 1
                /\ \A m \in 1..(k - 1) :
                     log[j].attempts[m] \in {ConnectError, ConnectTimedOut}
                /\ log[j].state = "raised"
                /\ log[j].error = "HTTPError"
                /\ Aborted

\* a call answered 400 at once, and one answered 404 after the connection
\* failed `retries` times
C6_Witness ==
    /\ log # <<>>
    /\ log[Len(log)].error = "HTTPError"
    /\ \/ log[Len(log)].attempts = <<Response(400, FALSE, FALSE)>>
       \/ /\ Len(log[Len(log)].attempts) = retries + 1
          /\ log[Len(log)].attempts[retries + 1] = Response(404, FALSE, FALSE)

(***************************************************************************)
(* C7: a prerequisite call that returned without an id aborts the run      *)
(* before any dependent call: no call is sent whose payload or path        *)
(* carries an absent (null) identifier.                                    *)
(***************************************************************************)
C7_NoNullIdentifier ==
    \A j \in DOMAIN log :
        /\ \A f \in DOMAIN log[j].json \cap IdFields : log[j].json[f] # None
        /\ IsPatch(log[j]) => log[j].url[2] # None

\* the payload fields filled from the two documents
DocumentFields == {"prefix", "description", "node_kind", "node_address", "address", "name"}

(***************************************************************************)
(* C8: an absent required document field (mgmt.ipv4-subnet; a node's kind  *)
(* or mgmt-ipv4; an interface's name or ipv4; a prefix entry's prefix or   *)
(* name) aborts the run: no call is issued whose payload carries the       *)
(* absent field.                                                           *)
(***************************************************************************)
C8_NoAbsentField ==
    \A j \in DOMAIN log :
        \A f \in DOMAIN log[j].json \cap DocumentFields : log[j].json[f] # None

(***************************************************************************)
(* C9: the call log of a successful run is the plan computed from the two  *)
(* documents: the eight fixed calls, one Prefix per entry of the overrides *)
(* prefix list in list order, the management Prefix, then one contiguous   *)
(* block per node in insertion order of the effective node mapping.  With  *)
(* P override prefixes and k_n interfaces on node n that is                *)
(* 9 + P + sum over the nodes of (5 + 3 * k_n) calls, and the blocks of    *)
(* different nodes do not interleave.                                      *)
(***************************************************************************)
C9_DeterministicPlan ==
    Succeeded =>
        LET topo == topology_dict
            listed == GetOr(extra_topology_vars_dict, "prefixes", <<>>)
            k(n) == Len(GetOr(topo.nodes[n].data, "interfaces", <<>>))
        IN  /\ [j \in DOMAIN log |-> StepOf(log[j])]
                 = ExpectedPlan(topo, extra_topology_vars_dict)
            /\ \A j \in DOMAIN log : Returned(j)
            /\ Len(log) = 9 + Len(listed) + SumSeq([n \in DOMAIN topo.nodes |-> 5 + 3 * k(n)])
            /\ \A n \in NodeIndices :
                 LET calls == CallsOfNode(n)
                 IN  /\ Cardinality(calls) = 5 + 3 * k(n)
                     \* contiguous: no two of them further apart than their number
                     /\ \A a \in calls : \A b \in calls : b - a < Cardinality(calls)
                     \* and all of them before the calls of the next node
                     /\ n < Len(topo.nodes) =>
                          \A a \in calls : \A b \in CallsOfNode(n + 1) : a < b

\* a successful run over two prefix entries and two nodes in the order
\* leaf2, leaf1, the first with two declared interfaces and the second with
\* one: 9 + 2 + (5 + 6) + (5 + 3) calls
C9_Witness ==
    /\ Succeeded
    /\ Len(GetOr(extra_topology_vars_dict, "prefixes", <<>>)) = 2
    /\ Len(topology_dict.nodes) = 2
    /\ topology_dict.nodes[1].key = NodeNames[2]
    /\ Len(GetOr(topology_dict.nodes[1].data, "interfaces", <<>>)) = 2
    /\ Len(GetOr(topology_dict.nodes[2].data, "interfaces", <<>>)) = 1
    /\ Len(log) = 30
    \* the lists are not in the order of their values
    /\ log[9].json.prefix = PrefixEntry(2).prefix
    /\ log[10].json.prefix = PrefixEntry(1).prefix
    /\ log[14].json.name = IntfNames[2]
    /\ log[17].json.name = IntfNames[1]

Calls(Is(_)) == {j \in DOMAIN log : Is(log[j])}

\* the one element of a singleton set of calls
The(S) == CHOOSE j \in S : TRUE

(***************************************************************************)
(* C10: in a successful run each node of the effective topology yields     *)
(* exactly one Device creation, exactly one Interface "Management0" with   *)
(* label "mgmt", exactly one management IPAddress, exactly one mapping     *)
(* between those two, and exactly one IPAddress / Interface / mapping      *)
(* triple per declared interface; a node key that appears only in the      *)
(* overrides document yields no Device and no other call.                  *)
(***************************************************************************)
C10_OnePerNode ==
    Succeeded =>
        LET nodes == topology_dict.nodes
            declared(n) == GetOr(nodes[n].data, "interfaces", <<>>)
            devices(n) == {j \in Calls(IsDevice) : log[j].json.name = nodes[n].key}
            addresses(x) == {j \in Calls(IsIPAddress) : log[j].json.address = x}
            ports(n, name) ==
                {j \in Calls(IsInterface) :
                    /\ log[j].json.name = name
                    /\ log[j].json.device = ReturnedId(The(devices(n)))}
            mappings(ips, ifs) ==
                {j \in Calls(IsMapping) :
                    /\ log[j].json.ip_address = ReturnedId(The(ips))
                    /\ log[j].json.interface = ReturnedId(The(ifs))}
            triple(ips, ifs) ==
                /\ Cardinality(ips) = 1
                /\ Cardinality(ifs) = 1
                /\ Cardinality(mappings(ips, ifs)) = 1
            total == SumSeq([n \in DOMAIN nodes |-> 1 + Len(declared(n))])
            overrides == GetOr(extra_topology_vars_dict, "nodes", <<>>)
        IN  /\ \A n \in DOMAIN nodes :
                 /\ Cardinality(devices(n)) = 1
                 /\ triple(addresses(Get(nodes[n].data, "mgmt-ipv4")), ports(n, "Management0"))
                 /\ log[The(ports(n, "Management0"))].json.label = "mgmt"
                 /\ \A i \in DOMAIN declared(n) :
                      triple(addresses(declared(n)[i]["ipv4"]), ports(n, declared(n)[i]["name"]))
            /\ Cardinality(Calls(IsDevice)) = Len(nodes)
            /\ Cardinality(Calls(IsPatch)) = Len(nodes)
            /\ Cardinality(Calls(IsIPAddress)) = total
            /\ Cardinality(Calls(IsInterface)) = total
            /\ Cardinality(Calls(IsMapping)) = total
            /\ \A x \in DOMAIN overrides :
                 overrides[x].key \notin NodeKeys(nodes) =>
                    \A j \in DOMAIN log :
                        "name" \in DOMAIN log[j].json => log[j].json.name # overrides[x].key

\* a successful run over two nodes, one with two declared interfaces, and
\* overrides for a node the topology does not have
C10_Witness ==
    /\ Succeeded
    /\ Len(topology_dict.nodes) = 2
    /\ \E n \in NodeIndices : Len(GetOr(topology_dict.nodes[n].data, "interfaces", <<>>)) = 2
    /\ \E x \in DOMAIN GetOr(extra_topology_vars_dict, "nodes", <<>>) :
          extra_topology_vars_dict.nodes[x].key \notin NodeKeys(topology_dict.nodes)

(***************************************************************************)
(* The merge loop on its own: the handler up to the first call, over       *)
(* overrides documents with several node entries, and the loop run a       *)
(* second time over the document it produced.                              *)
(***************************************************************************)
\* per-node overrides: a changed and an added field, an emptied interface
\* list, or a changed address with another interface list
MergeOverrideData ==
    {[kind |-> "linux", group |-> "edge"],
     [interfaces |-> <<>>],
     ("mgmt-ipv4" :> "192.168.0.9") @@ [interfaces |-> <<Intf(9, 1)>>]}

\* the overrides documents: node entries for up to MaxNodes distinct keys, in
\* any insertion order, among the node names of the topologies and the name
\* after them
MergeExtraVars ==
    UNION {{IF Len(keys) = 0 THEN EmptyDict
            ELSE [nodes |-> [j \in DOMAIN keys |-> [key |-> NodeNames[keys[j]], data |-> d[j]]]] :
               d \in [DOMAIN keys -> MergeOverrideData]} :
           keys \in InjectiveSeqs(1..(MaxNodes + 1), MaxNodes)}

InitMerge ==
    /\ topology_dict \in Topologies
    /\ extra_topology_vars_dict \in MergeExtraVars
    /\ transport = Plain
    /\ pc = Pos("start", 0, 0)
    /\ locals = EmptyDict
    /\ log = <<>>
    /\ events = <<>>
    /\ shown = <<"Starting data load...">>

\* lines 148-152 once more, over the merged topology_dict and the same
\* extra_topology_vars_dict
MergeAgain ==
    /\ pc = Pos(top_level[1], 0, 0)
    /\ log = <<>>
    /\ LET items == GetOr(extra_topology_vars_dict, "nodes", <<>>)
       IN  /\ topology_dict' =
                [topology_dict EXCEPT !.nodes = merge_nodes(topology_dict.nodes, items)]
           /\ events' = events \o merge_warnings(topology_dict.nodes, items)
    /\ pc' = Pos("merged_again", 0, 0)
    /\ UNCHANGED <<extra_topology_vars_dict, transport, locals, log, shown>>

NextMerge == Load \/ MergeAgain

SpecMerge == InitMerge /\ [][NextMerge]_vars

OverrideItems == GetOr(extra_topology_vars_dict, "nodes", <<>>)
OverrideKeys == NodeKeys(OverrideItems)

\* the override entry for the node key k
OverrideFor(k) == OverrideItems[CHOOSE x \in DOMAIN OverrideItems : OverrideItems[x].key = k].data

MergedAgain == pc.at = "merged_again"

(***************************************************************************)
(* C11: when the override node keys are a subset of the primary node keys, *)
(* merging the merged document again with the same overrides leaves it as  *)
(* the single merge made it.                                               *)
(***************************************************************************)
C11_MergeIdempotent ==
    [][(MergeAgain /\ OverrideKeys \subseteq NodeKeys(topology_dict.nodes))
         => topology_dict' = topology_dict]_vars

\* merged twice, with overrides for both nodes of the topology, one of them
\* a non-empty interface list for a node that declares interfaces
C11_Witness ==
    /\ MergedAgain
    /\ Len(OverrideItems) = 2
    /\ OverrideKeys = NodeKeys(topology_dict.nodes)
    /\ \E n \in NodeIndices :
         /\ "group" \in DOMAIN node_data(topology_dict, n)
    /\ \E n \in NodeIndices :
         /\ interfaces(topology_dict, n) = <<Intf(9, 1)>>
         /\ Get(node_data(topology_dict, n), "kind") = "ceos"

WarningsFor(evs, k) ==
    {j \in DOMAIN evs : evs[j].text = "Key not found in topology_dict" /\ evs[j].args = <<k>>}
Warnings(evs) == {j \in DOMAIN evs : evs[j].text = "Key not found in topology_dict"}

(***************************************************************************)
(* C12: the merge emits exactly one warning for every override node key    *)
(* that the primary topology does not have and none for the keys it has,   *)
(* it does not abort (control reaches the first call), and the node keys   *)
(* of the effective document are those of the primary topology.            *)
(***************************************************************************)
C12_UnmatchedWarned ==
    [][Load =>
         /\ \A k \in OverrideKeys :
              Cardinality(WarningsFor(events', k))
                = (IF k \in NodeKeys(topology_dict.nodes) THEN 0 ELSE 1)
         /\ Cardinality(Warnings(events'))
              = Cardinality(OverrideKeys \ NodeKeys(topology_dict.nodes))
         /\ NodeKeys(topology_dict'.nodes) = NodeKeys(topology_dict.nodes)
         /\ Len(topology_dict'.nodes) = Len(topology_dict.nodes)
         /\ pc' = Pos(top_level[1], 0, 0)
         /\ shown' = shown]_vars

\* merged with one override key matched and one unmatched
C12_Witness ==
    /\ pc = Pos(top_level[1], 0, 0)
    /\ Cardinality(Warnings(events)) = 1
    /\ Cardinality(OverrideKeys \cap NodeKeys(topology_dict.nodes)) = 1
    /\ Cardinality(OverrideKeys \ NodeKeys(topology_dict.nodes)) = 1

(***************************************************************************)
(* C13: for a node present in both documents every field the override      *)
(* names takes the override's value (the interface list is replaced whole) *)
(* and every other field keeps the primary value; the nodes the overrides  *)
(* do not name, their order, the rest of the topology and the overrides    *)
(* document itself are left unchanged.                                     *)
(***************************************************************************)
C13_ShallowOverrideWins ==
    [][Load =>
         /\ extra_topology_vars_dict' = extra_topology_vars_dict
         /\ topology_dict'.mgmt = topology_dict.mgmt
         /\ DOMAIN topology_dict' = DOMAIN topology_dict
         /\ DOMAIN topology_dict'.nodes = DOMAIN topology_dict.nodes
         /\ \A n \in DOMAIN topology_dict.nodes :
              LET old == topology_dict.nodes[n]
                  new == topology_dict'.nodes[n]
              IN  /\ new.key = old.key
                  /\ IF old.key \in OverrideKeys
                     THEN LET o == OverrideFor(old.key)
                          IN  /\ DOMAIN new.data = DOMAIN old.data \cup DOMAIN o
                              /\ \A f \in DOMAIN o : new.data[f] = o[f]
                              /\ \A f \in DOMAIN old.data \ DOMAIN o : new.data[f] = old.data[f]
                     ELSE new = old]_vars

\* merged: one node took the interface list of its override and kept its
\* kind, the other node is not named by the overrides and keeps its interface
C13_Witness ==
    /\ pc = Pos(top_level[1], 0, 0)
    /\ Len(topology_dict.nodes) = 2
    /\ \E n \in NodeIndices :
         /\ topology_dict.nodes[n].key \in OverrideKeys
         /\ interfaces(topology_dict, n) = <<Intf(9, 1)>>
         /\ Get(node_data(topology_dict, n), "kind") = "ceos"
         /\ Get(node_data(topology_dict, n), "mgmt-ipv4") = "192.168.0.9"
    /\ \E n \in NodeIndices :
         /\ topology_dict.nodes[n].key \notin OverrideKeys
         /\ Len(interfaces(topology_dict, n)) = 1

(***************************************************************************)
(* Status references, call shapes and identifier scopes of the runs of     *)
(* Spec                                                                    *)
(***************************************************************************)
IsStatusCall(c) == IsPost(c, "/api/extras/statuses/")

(***************************************************************************)
(* C14: in a successful run there are exactly two calls to the statuses    *)
(* endpoint, one creating "lab-active" and one creating "Alerted"; every   *)
(* Location, Prefix, Device, Interface and IPAddress payload carries a     *)
(* status, and every status a payload carries is the id the one active     *)
(* Status creation returned, that call having returned before.             *)
(***************************************************************************)
C14_StatusesOnce ==
    Succeeded =>
        /\ Cardinality(Calls(IsStatusCall)) = 2
        /\ Cardinality(Calls(IsActiveStatus)) = 1
        /\ Cardinality(Calls(IsAlertedStatus)) = 1
        /\ LET active == The(Calls(IsActiveStatus))
           IN  \A j \in DOMAIN log :
                 LET c == log[j]
                 IN  /\ (IsLocation(c) \/ IsPrefix(c) \/ IsDevice(c) \/ IsInterface(c)
                           \/ IsIPAddress(c)) => "status" \in DOMAIN c.json
                     /\ "status" \in DOMAIN c.json =>
                          /\ active < j
                          /\ Returned(active)
                          /\ c.json.status = ReturnedId(active)

\* a successful run over a prefix entry and two nodes with an interface, in
\* which both statuses were given identifiers
C14_Witness ==
    /\ Succeeded
    /\ Len(log) = MaxRequests
    /\ \E j \in Calls(IsActiveStatus) : ReturnedId(j) # None
    /\ \E j \in Calls(IsAlertedStatus) : ReturnedId(j) # None

(***************************************************************************)
(* C15: in every run, successful or aborted, every call is a POST to one   *)
(* of the twelve creation endpoints or a PATCH to /api/dcim/devices/{id}/  *)
(* whose id is the one an earlier Device creation of the run returned; no  *)
(* call of any kind follows a failed call.                                 *)
(***************************************************************************)
C15_OnlyCreateAndPatch ==
    \A j \in DOMAIN log :
        LET c == log[j]
        IN  /\ \/ \E u \in Urls : IsPost(c, u)
               \/ /\ IsPatch(c)
                  /\ c.url[3] = "/"
                  /\ \E i \in 1..(j - 1) :
                       IsDevice(log[i]) /\ Returned(i) /\ c.url[2] = ReturnedId(i)
            /\ log[j].state = "raised" => j = Len(log)

\* an aborted run in which a device had been patched
C15_Witness ==
    /\ Aborted
    /\ log # <<>>
    /\ log[Len(log)].state = "raised"
    /\ \E j \in DOMAIN log : IsPatch(log[j]) /\ Returned(j) /\ log[j].url[2] # None

(***************************************************************************)
(* C16: for a response without the conflict marker, http_call returns a    *)
(* result only when the status is 2xx: 204 gives the empty result, any     *)
(* other 2xx the parsed JSON body, and every other status ends the call in *)
(* an error without a result.                                              *)
(***************************************************************************)
C16_ResultOnly2xx ==
    \A j \in DOMAIN log :
        Finished(j) =>
            LET o == log[j].attempts[Len(log[j].attempts)]
                ok == o.status_code >= 200 /\ o.status_code < 300
            IN  (o.kind = "response" /\ ~o.already_exists) =>
                    /\ Returned(j) <=> ok
                    /\ ok => log[j].value = (IF o.status_code = 204 THEN EmptyDict
                                             ELSE response_json(o, ToString(j)))
                    /\ ~ok => log[j].error # None /\ log[j].value = EmptyDict

(***************************************************************************)
(* C17: every identifier a payload or path carries comes from the call of  *)
(* the same scope: an Interface's device and the PATCH path carry the id   *)
(* returned by the Device creation of the same node, the only one issued   *)
(* for that node; a mapping carries the ids returned by the two calls      *)
(* right before it, an IPAddress and an Interface creation; and the PATCH  *)
(* carries as primary_ip4 the id returned by the node's management         *)
(* IPAddress creation, three calls before it.                              *)
(***************************************************************************)
C17_ScopedIdentifiers ==
    \A j \in DOMAIN log :
        LET c == log[j]
            ofNode(id) ==
                \E i \in 1..(j - 1) :
                    /\ IsDevice(log[i]) /\ Returned(i)
                    /\ log[i].at.n = c.at.n
                    /\ log[i].json.name = topology_dict.nodes[c.at.n].key
                    /\ id = ReturnedId(i)
                    /\ \A k \in (i + 1)..(j - 1) : ~IsDevice(log[k])
        IN  /\ IsInterface(c) => ofNode(c.json.device)
            /\ IsMapping(c) =>
                 /\ j > 2
                 /\ IsIPAddress(log[j - 2]) /\ Returned(j - 2)
                 /\ IsInterface(log[j - 1]) /\ Returned(j - 1)
                 /\ c.json.ip_address = ReturnedId(j - 2)
                 /\ c.json.interface = ReturnedId(j - 1)
            /\ IsPatch(c) =>
                 /\ ofNode(c.url[2])
                 /\ j > 3
                 /\ IsIPAddress(log[j - 3]) /\ Returned(j - 3)
                 /\ log[j - 3].at.n = c.at.n
                 /\ log[j - 3].json.address = Get(node_data(topology_dict, c.at.n), "mgmt-ipv4")
                 /\ log[j - 2].json.name = "Management0"
                 /\ c.json.primary_ip4 = ReturnedId(j - 3)

\* the second node, which declares an interface after a first node that
\* declares one too, has been patched, every call having returned an id
C17_Witness ==
    /\ NodeCompleted(2)
    /\ Len(interfaces(topology_dict, 1)) > 0
    /\ Len(interfaces(topology_dict, 2)) > 0
    /\ \A j \in DOMAIN log : ReturnedId(j) # None

\* the binding a call sets: the local variable, for the node or prefix and
\* the interface the loops are at
BindingKey(c) == <<local_name(c.at), c.at.n, c.at.i>>

\* the returned calls that set the same binding as an earlier returned call
Overwrites ==
    {j \in DOMAIN log :
        /\ Returned(j)
        /\ \E i \in 1..(j - 1) : Returned(i) /\ BindingKey(log[i]) = BindingKey(log[j])}

\* the returned calls that set the binding the call in flight sets
EarlierWrites ==
    {i \in 1..(Len(log) - 1) : Returned(i) /\ BindingKey(log[i]) = BindingKey(log[Len(log)])}

(***************************************************************************)
(* C18 as claimed: once a binding has been set from the response of its    *)
(* creation call, no later step of the run sets it again: a call that      *)
(* returns sets a binding that no earlier call has set.                    *)
(***************************************************************************)
C18_WriteOnce == [][Return => EarlierWrites = {}]_vars

(***************************************************************************)
(* C18 as amended: a call that returns sets the binding of its own local   *)
(* variable and no other; the only binding set a second time is a node's   *)
(* Device, by the response of that node's PATCH, after which control       *)
(* leaves the node (for the next node, the end of the run or its abort),   *)
(* so that no identifier is read from the binding set again.               *)
(***************************************************************************)
C18_WriteOnceButDevice ==
    [][Return =>
         /\ locals' = dict_update(locals, (local_name(pc) :> log'[Len(log)].value))
         /\ \A i \in EarlierWrites :
              /\ log[i].at.at = "device"
              /\ pc.at = "device_patch"
              /\ pc'.at \in {"device", "end", "failed"}
              /\ pc'.n # pc.n]_vars

\* the first node has been patched and the device of the second created
C18_Witness ==
    /\ NodeCompleted(1)
    /\ \E j \in CallsOfNode(2) : IsDevice(log[j]) /\ Returned(j)
    /\ Cardinality(Overwrites) = 1

\* the texts of the step events: "Created ..." and "Updated ..."
StepTexts ==
    {"Created Role", "Created Manufacturer", "Created Device Types", "Created Location Type",
     "Created Status", "Created Location", "Created IPAM Namespace", "Created Prefix",
     "Created Device", "Created IP Address", "Created Interface",
     "Created IP Address to Interface Mapping", "Created Mgmt IP Address",
     "Created Mgmt Interface", "Created Mgmt IP Address to Interface Mapping",
     "Updated Device"}

IsStepEvent(e) == e.text \in StepTexts

StepEvents == SelectSeq(events, IsStepEvent)

(***************************************************************************)
(* C19: at every point of a run the step events emitted are one per call   *)
(* that has returned, in the order of the calls, each carrying the display *)
(* string its call returned; so the event of a call is emitted before the  *)
(* next call is issued, and a call in flight or failed has no event.       *)
(***************************************************************************)
C19_OneEventPerStep ==
    LET returned == {j \in DOMAIN log : Returned(j)}
        steps == StepEvents
    IN  /\ Len(steps) = Cardinality(returned)
        /\ returned = 1..Len(steps)
        /\ \A k \in DOMAIN steps :
             LET e == steps[k]
             IN  /\ e.args[Len(e.args)] = Get(log[k].value, "display")
                 /\ (e.text = "Updated Device") <=> IsPatch(log[k])
                 /\ (e.text = "Created Status") <=> IsStatusCall(log[k])

(***************************************************************************)
(* Termination.  The handler runs to its end without waiting for anything  *)
(* but the transport: a step that can be taken is taken.  Nothing bounds   *)
(* the time an attempt takes: timeout = 10 bounds every read of the        *)
(* socket, not the arrival of the whole response, so that a step that can  *)
(* be taken for ever is the arrival of one more chunk.                     *)
(***************************************************************************)
FairSpec == Spec /\ WF_vars(Next)

Terminated == pc.at \in {"done", "failed"}

\* no call makes more than retries + 1 attempts; at most one call is in
\* flight; and a call is issued only after every earlier call has had its
\* final outcome
BoundedCalls ==
    /\ \A j \in DOMAIN log : Len(log[j].attempts) <= retries + 1
    /\ Cardinality({j \in DOMAIN log : ~Finished(j)}) <= 1
    /\ \A j \in 1..(Len(log) - 1) : Finished(j)
    /\ Terminated => \A j \in DOMAIN log : Finished(j)

====
